---- MODULE Spec2Model ----
(***************************************************************************)
(* The Dice scoring functions of the BraTS U-Net notebooks (calc_dice,     *)
(* dice_coef, dice_coef_loss, combined_dice_ce_loss) as operators over     *)
(* 4-D tensors (batch, height, width, channels), and a state machine that  *)
(* calls them on bounded inputs; the same functions called concurrently,   *)
(* statement by statement; and the cells of the inference notebook         *)
(* (predict and its driver loop) and of the training notebook (load data,  *)
(* define model, train, evaluate) as steps of their kernels.               *)
(*                                                                         *)
(* Numbers.  A floating-point value is modelled as an extended rational    *)
(* <<n, d>> in lowest terms with d >= 0: d > 0 is the finite value n/d,    *)
(* <<1,0>> is +inf, <<-1,0>> is -inf and <<0,0>> is nan, with IEEE-754     *)
(* rules for the special values (x/0, 0/0, inf-inf, 0*inf).  Mask values   *)
(* are drawn from {0, 1/2, 1}: on this dyadic grid every sum and product   *)
(* the functions form is exact in binary floating point, so the rational   *)
(* result is the float result.  Rounding and signed zeros are not          *)
(* modelled.  A logarithm is kept symbolic: a value built from logs is a   *)
(* sequence of terms <<c, x>> standing for the sum of c * log(x).          *)
(***************************************************************************)
EXTENDS Integers, Sequences, FiniteSets, TLC

VARIABLES y_true, y_pred, fn, smooth, weight, err, out,
          threads, inference, training

\* y_true .. out: the arguments and the outcome of a call of a scoring function.
\* threads: the calls of the scoring functions that run concurrently, with
\* the local variables of each.
\* inference: the kernel of the inference notebook: where its cells and
\* predict stand, the names they have bound, what they printed and saved.
\* training: the kernel of the training notebook, likewise.
vars == <<y_true, y_pred, fn, smooth, weight, err, out,
          threads, inference, training>>

(* ------------------------------ bounds -------------------------------- *)

\* Largest number of elements (batch * height * width * channels) of a mask.
MaxElems == 3

\* Largest args.batch_size of the training notebook.
MaxBatch == 3

(* --------------------------- extended rationals ----------------------- *)

Abs(n) == IF n < 0 THEN -n ELSE n

Sign(n) == IF n > 0 THEN 1 ELSE IF n < 0 THEN -1 ELSE 0

RECURSIVE GCD(_, _)
GCD(a, b) == IF b = 0 THEN a ELSE GCD(b, a % b)

\* n/d with d >= 0, in lowest terms; d = 0 gives inf, -inf or nan by n's sign.
Norm(n, d) ==
    IF d = 0 THEN <<Sign(n), 0>>
    ELSE IF d = 1 THEN <<n, 1>>
    ELSE LET g == GCD(Abs(n), d) IN <<n \div g, d \div g>>

Zero == <<0, 1>>
One == <<1, 1>>
Two == <<2, 1>>
Half == <<1, 2>>
NaN == <<0, 0>>
PosInf == <<1, 0>>
NegInf == <<-1, 0>>

IsFinite(x) == x[2] > 0

RAdd(x, y) ==
    IF x[2] = 0 /\ y[2] = 0
    THEN (IF x[1] = y[1] THEN x ELSE NaN)
    ELSE Norm(x[1] * y[2] + y[1] * x[2], x[2] * y[2])

RMul(x, y) == Norm(x[1] * y[1], x[2] * y[2])

RNeg(x) == <<-x[1], x[2]>>

RSub(x, y) == RAdd(x, RNeg(y))

\* 1/x: 1/0 = inf, 1/inf = 0, 1/nan = nan.
RInv(x) ==
    IF x[1] > 0 THEN <<x[2], x[1]>>
    ELSE IF x[1] < 0 THEN <<-x[2], -x[1]>>
    ELSE IF x[2] > 0 THEN PosInf ELSE NaN

RDiv(x, y) == RMul(x, RInv(y))

\* Comparisons of finite values (a comparison with nan is false).
RLess(x, y) == IsFinite(x) /\ IsFinite(y) /\ x[1] * y[2] < y[1] * x[2]

RLeq(x, y) == IsFinite(x) /\ IsFinite(y) /\ x[1] * y[2] <= y[1] * x[2]

(* ------------------------------- tensors ------------------------------ *)

\* A tensor is [shape |-> <<batch, height, width, channels>>, val |-> its
\* elements in row-major order].
Rank == 4

NumElems(shape) == shape[1] * shape[2] * shape[3] * shape[4]

\* The index <<b, h, w, c>> of the k-th element (k in 1..NumElems(shape)).
Unravel(k, shape) ==
    LET r == k - 1
    IN <<(r \div (shape[2] * shape[3] * shape[4])) + 1,
         ((r \div (shape[3] * shape[4])) % shape[2]) + 1,
         ((r \div shape[4]) % shape[3]) + 1,
         (r % shape[4]) + 1>>

\* The position of index idx; an axis of length 1 is read at 1 whatever idx
\* says there (broadcasting).
Ravel(idx, shape) ==
    LET i1 == IF shape[1] = 1 THEN 1 ELSE idx[1]
        i2 == IF shape[2] = 1 THEN 1 ELSE idx[2]
        i3 == IF shape[3] = 1 THEN 1 ELSE idx[3]
        i4 == IF shape[4] = 1 THEN 1 ELSE idx[4]
    IN (((i1 - 1) * shape[2] + (i2 - 1)) * shape[3] + (i3 - 1)) * shape[4] + i4

\* numpy / TensorFlow broadcasting of two shapes of the same rank.
BroadcastOK(s1, s2) == \A i \in 1..Rank : s1[i] = s2[i] \/ s1[i] = 1 \/ s2[i] = 1

BroadcastShape(s1, s2) ==
    <<IF s1[1] = 1 THEN s2[1] ELSE s1[1], IF s1[2] = 1 THEN s2[2] ELSE s1[2],
      IF s1[3] = 1 THEN s2[3] ELSE s1[3], IF s1[4] = 1 THEN s2[4] ELSE s1[4]>>

\* The element of x that index idx of a broadcast result reads.
At(x, idx) == x.val[Ravel(idx, x.shape)]

\* The first k elements of x * y, x + y and x / y over the broadcast shape s.
RECURSIVE MulFirst(_, _, _, _)
MulFirst(x, y, s, k) ==
    IF k = 0 THEN <<>>
    ELSE Append(MulFirst(x, y, s, k - 1),
                RMul(At(x, Unravel(k, s)), At(y, Unravel(k, s))))

RECURSIVE AddFirst(_, _, _, _)
AddFirst(x, y, s, k) ==
    IF k = 0 THEN <<>>
    ELSE Append(AddFirst(x, y, s, k - 1),
                RAdd(At(x, Unravel(k, s)), At(y, Unravel(k, s))))

RECURSIVE DivFirst(_, _, _, _)
DivFirst(x, y, s, k) ==
    IF k = 0 THEN <<>>
    ELSE Append(DivFirst(x, y, s, k - 1),
                RDiv(At(x, Unravel(k, s)), At(y, Unravel(k, s))))

\* x * y, elementwise.
TMul(x, y) ==
    LET s == BroadcastShape(x.shape, y.shape)
    IN [shape |-> s, val |-> MulFirst(x, y, s, NumElems(s))]

\* x + y, elementwise.
TAdd(x, y) ==
    LET s == BroadcastShape(x.shape, y.shape)
    IN [shape |-> s, val |-> AddFirst(x, y, s, NumElems(s))]

\* x / y, elementwise.
TDiv(x, y) ==
    LET s == BroadcastShape(x.shape, y.shape)
    IN [shape |-> s, val |-> DivFirst(x, y, s, NumElems(s))]

\* A Python scalar as a tensor that broadcasts against anything.
Scalar(c) == [shape |-> <<1, 1, 1, 1>>, val |-> <<c>>]

RECURSIVE SumFirst(_, _)
SumFirst(v, k) == IF k = 0 THEN Zero ELSE RAdd(SumFirst(v, k - 1), v[k])

\* np.sum(x): the sum of every element, over all axes.
np_sum(x) == SumFirst(x.val, NumElems(x.shape))

(* -------------------------- scoring functions ------------------------- *)

\* calc_dice with the factor 2.0 of the numerator left out.
calc_dice_no_factor(yt, yp, sm) ==
    LET numerator == RAdd(np_sum(TMul(yt, yp)), sm)
        denominator == RAdd(RAdd(np_sum(yt), np_sum(yp)), sm)
    IN RDiv(numerator, denominator)

\* calc_dice with smooth left out of the denominator.
calc_dice_unsmoothed_denominator(yt, yp, sm) ==
    LET numerator == RAdd(RMul(Two, np_sum(TMul(yt, yp))), sm)
        denominator == RAdd(np_sum(yt), np_sum(yp))
    IN RDiv(numerator, denominator)

\* calc_dice summing y_true twice in the denominator.
calc_dice_true_twice(yt, yp, sm) ==
    LET numerator == RAdd(RMul(Two, np_sum(TMul(yt, yp))), sm)
        denominator == RAdd(RAdd(np_sum(yt), np_sum(yt)), sm)
    IN RDiv(numerator, denominator)

calc_dice(yt, yp, sm) ==
    LET numerator == RAdd(RMul(Two, np_sum(TMul(yt, yp))), sm)
        denominator == RAdd(RAdd(np_sum(yt), np_sum(yp)), sm)
        coef == RDiv(numerator, denominator)
    IN coef

\* predict: dice_score = calc_dice(pred_mask, msk), the prediction in the
\* position of y_true and smooth left at its default.
dice_score(msk, pred_mask) == calc_dice(pred_mask, msk, One)

\* tf.reduce_sum(x, axis): axis is a set of 0-based axes.  The reduced axes are
\* kept with length 1 (the code drops them); every later use is an elementwise
\* operation between tensors reduced over the same axes, a scalar, or a full
\* reduction, for which the two layouts agree.
ReducedShape(shape, axis) ==
    <<IF 0 \in axis THEN 1 ELSE shape[1], IF 1 \in axis THEN 1 ELSE shape[2],
      IF 2 \in axis THEN 1 ELSE shape[3], IF 3 \in axis THEN 1 ELSE shape[4]>>

\* The sum of the first k elements of x whose index agrees with idx on every
\* axis that is not reduced.
RECURSIVE SumSlice(_, _, _, _)
SumSlice(x, axis, idx, k) ==
    IF k = 0 THEN Zero
    ELSE LET j == Unravel(k, x.shape)
             rest == SumSlice(x, axis, idx, k - 1)
         IN IF \A i \in 1..Rank : (i - 1) \in axis \/ j[i] = idx[i]
            THEN RAdd(rest, x.val[k])
            ELSE rest

RECURSIVE ReduceFirst(_, _, _, _)
ReduceFirst(x, axis, s, k) ==
    IF k = 0 THEN <<>>
    ELSE Append(ReduceFirst(x, axis, s, k - 1),
                SumSlice(x, axis, Unravel(k, s), NumElems(x.shape)))

reduce_sum(x, axis) ==
    LET s == ReducedShape(x.shape, axis)
    IN [shape |-> s, val |-> ReduceFirst(x, axis, s, NumElems(s))]

\* tf.reduce_mean(x): the mean of every element.
reduce_mean(x) == RDiv(np_sum(x), <<NumElems(x.shape), 1>>)

\* The default of the axis parameter: height and width.
DefaultAxis == {1, 2}

\* dice_coef reducing over the batch axis as well: one ratio of batch-wide sums.
dice_coef_batch_reduced(yt, yp, axis, sm) ==
    LET intersection == reduce_sum(TMul(yt, yp), axis \cup {0})
        union == reduce_sum(TAdd(yt, yp), axis \cup {0})
        numerator == TAdd(TMul(Scalar(Two), intersection), Scalar(sm))
        denominator == TAdd(union, Scalar(sm))
        coef == TDiv(numerator, denominator)
    IN reduce_mean(coef)

\* dice_coef returning the sum of the per-sample coefficients, not their mean.
dice_coef_summed(yt, yp, axis, sm) ==
    LET intersection == reduce_sum(TMul(yt, yp), axis)
        union == reduce_sum(TAdd(yt, yp), axis)
        numerator == TAdd(TMul(Scalar(Two), intersection), Scalar(sm))
        denominator == TAdd(union, Scalar(sm))
        coef == TDiv(numerator, denominator)
    IN np_sum(coef)

dice_coef(yt, yp, axis, sm) ==
    LET intersection == reduce_sum(TMul(yt, yp), axis)
        union == reduce_sum(TAdd(yt, yp), axis)
        numerator == TAdd(TMul(Scalar(Two), intersection), Scalar(sm))
        denominator == TAdd(union, Scalar(sm))
        coef == TDiv(numerator, denominator)
    IN reduce_mean(coef)

\* dice_coef_loss with smooth added after the factor 2: 2 * intersection + smooth.
dice_coef_loss_smooth_outside(target, prediction, axis, sm) ==
    LET intersection == reduce_sum(TMul(prediction, target), axis)
        p == reduce_sum(prediction, axis)
        t == reduce_sum(target, axis)
        numerator == RAdd(RMul(Two, reduce_mean(intersection)), sm)
        denominator == reduce_mean(TAdd(TAdd(t, p), Scalar(sm)))
    IN << <<RNeg(One), numerator>>, <<One, denominator>> >>

\* dice_coef_loss with smooth left out of the numerator.
dice_coef_loss_unsmoothed_numerator(target, prediction, axis, sm) ==
    LET intersection == reduce_sum(TMul(prediction, target), axis)
        p == reduce_sum(prediction, axis)
        t == reduce_sum(target, axis)
        numerator == reduce_mean(intersection)
        denominator == reduce_mean(TAdd(TAdd(t, p), Scalar(sm)))
    IN << <<RNeg(One), RMul(Two, numerator)>>, <<One, denominator>> >>

\* dice_coef_loss with the signs of the two logarithms exchanged.
dice_coef_loss_sign_flipped(target, prediction, axis, sm) ==
    LET intersection == reduce_sum(TMul(prediction, target), axis)
        p == reduce_sum(prediction, axis)
        t == reduce_sum(target, axis)
        numerator == reduce_mean(TAdd(intersection, Scalar(sm)))
        denominator == reduce_mean(TAdd(TAdd(t, p), Scalar(sm)))
    IN << <<One, RMul(Two, numerator)>>, <<RNeg(One), denominator>> >>

\* -tf.log(2.*numerator) + tf.log(denominator) as log terms <<coefficient, argument>>.
dice_coef_loss(target, prediction, axis, sm) ==
    LET intersection == reduce_sum(TMul(prediction, target), axis)
        p == reduce_sum(prediction, axis)
        t == reduce_sum(target, axis)
        numerator == reduce_mean(TAdd(intersection, Scalar(sm)))
        denominator == reduce_mean(TAdd(TAdd(t, p), Scalar(sm)))
        dice_loss == << <<RNeg(One), RMul(Two, numerator)>>, <<One, denominator>> >>
    IN dice_loss

\* c * (a sum of log terms).
RECURSIVE ScaleFirst(_, _, _)
ScaleFirst(c, terms, k) ==
    IF k = 0 THEN <<>>
    ELSE Append(ScaleFirst(c, terms, k - 1), <<RMul(c, terms[k][1]), terms[k][2]>>)

ScaleTerms(c, terms) == ScaleFirst(c, terms, Len(terms))

\* K.epsilon(), the fuzz factor of the Keras backend: 1e-7.
Epsilon == <<1, 10000000>>

\* tf.clip_by_value(x, lo, hi) on a finite value.
Clip(x, lo, hi) == IF RLess(x, lo) THEN lo ELSE IF RLess(hi, x) THEN hi ELSE x

\* K.binary_crossentropy on one element: the prediction is clipped to
\* [epsilon, 1 - epsilon], turned into a logit and passed to
\* sigmoid_cross_entropy_with_logits, which is
\* -t * log(p) - (1 - t) * log(1 - p) of the clipped p.
ElementCrossEntropy(t, p) ==
    LET q == Clip(p, Epsilon, RSub(One, Epsilon))
    IN << <<RNeg(t), q>>, <<RNeg(RSub(One, t)), RSub(One, q)>> >>

RECURSIVE ChannelTerms(_, _, _, _)
ChannelTerms(yt, yp, idx, c) ==
    IF c = 0 THEN <<>>
    ELSE LET j == [idx EXCEPT ![Rank] = c]
         IN ChannelTerms(yt, yp, idx, c - 1)
              \o ElementCrossEntropy(yt.val[Ravel(j, yt.shape)],
                                     yp.val[Ravel(j, yp.shape)])

\* The first k elements of the channel mean of the elementwise cross-entropy.
RECURSIVE CrossEntropyFirst(_, _, _, _)
CrossEntropyFirst(yt, yp, s, k) ==
    IF k = 0 THEN <<>>
    ELSE Append(CrossEntropyFirst(yt, yp, s, k - 1),
                ScaleTerms(<<1, yt.shape[Rank]>>,
                           ChannelTerms(yt, yp, Unravel(k, s), yt.shape[Rank])))

\* K.losses.binary_crossentropy(y_true, y_pred):
\* K.mean(K.binary_crossentropy(y_true, y_pred), axis=-1), one value per
\* (sample, row, column), the mean being over the channel axis only.
binary_crossentropy(yt, yp) ==
    LET s == ReducedShape(yt.shape, {Rank - 1})
    IN [shape |-> s, val |-> CrossEntropyFirst(yt, yp, s, NumElems(s))]

\* The first k elements of (scalar log terms) + c * (tensor of log terms).
RECURSIVE BlendFirst(_, _, _, _)
BlendFirst(dice, c, ce, k) ==
    IF k = 0 THEN <<>>
    ELSE Append(BlendFirst(dice, c, ce, k - 1), dice \o ScaleTerms(c, ce.val[k]))

\* combined_dice_ce_loss with the cross-entropy weighted by weight, not 1-weight.
combined_dice_ce_loss_same_weight(yt, yp, axis, sm, w) ==
    LET dice == ScaleTerms(w, dice_coef_loss(yt, yp, axis, sm))
        ce == binary_crossentropy(yt, yp)
    IN [shape |-> ce.shape, val |-> BlendFirst(dice, w, ce, NumElems(ce.shape))]

\* weight * (scalar loss) + (1 - weight) * (cross-entropy tensor): the scalar
\* broadcasts over the cross-entropy tensor.
combined_dice_ce_loss(yt, yp, axis, sm, w) ==
    LET dice == ScaleTerms(w, dice_coef_loss(yt, yp, axis, sm))
        ce == binary_crossentropy(yt, yp)
    IN [shape |-> ce.shape,
        val |-> BlendFirst(dice, RSub(One, w), ce, NumElems(ce.shape))]

(* ------------------------------- inputs ------------------------------- *)

\* The masks of this repository have one channel: the model's output layer
\* PredictionMask is (None, 144, 144, 1).
NumChannels == 1

Shapes ==
    {s \in {<<b, h, w, NumChannels>> :
               b \in 1..MaxElems, h \in 1..MaxElems, w \in 1..MaxElems} :
       NumElems(s) <= MaxElems}

\* Ground-truth labels and predicted probabilities.
TruthValues == {Zero, One}
PredValues == {Zero, Half, One}

TensorsOf(s, values) == {[shape |-> s, val |-> v] : v \in [1..NumElems(s) -> values]}

\* The smooth arguments of the contract: the default 1. and another positive
\* value; and the arguments outside it: zero and a negative value.
PositiveSmooth == {One, Half}
SmoothValues == PositiveSmooth \cup {Zero, <<-1, 1>>}

\* The weight arguments of the contract: the default 0.9 and the ends of
\* [0, 1]; and the arguments outside it: a value on either side of [0, 1].
DefaultWeight == <<9, 10>>
UnitWeights == {DefaultWeight, Zero, One}
WeightValues == UnitWeights \cup {<<-1, 2>>, <<3, 2>>}

\* No thread is running and no notebook has been opened.
NoThreads == threads = <<>>
NoNotebook == inference = <<>> /\ training = <<>>

NoCall ==
    /\ fn = "none"
    /\ smooth = One
    /\ weight = DefaultWeight
    /\ err = "none"
    /\ out = <<>>
    /\ NoThreads
    /\ NoNotebook

\* Masks of identical shape, as every caller in the notebooks passes them.
Init ==
    /\ \E s \in Shapes :
        /\ y_true \in TensorsOf(s, TruthValues)
        /\ y_pred \in TensorsOf(s, PredValues)
    /\ NoCall

\* The shapes of the batches given to dice_coef_loss: those within the bound
\* and the smallest one with several samples of several locations, where the
\* per-sample sums of a batch do not fix its intersection.
LossShapes == Shapes \cup {<<2, 1, 2, NumChannels>>}

InitLoss ==
    /\ \E s \in LossShapes :
        /\ y_true \in TensorsOf(s, TruthValues)
        /\ y_pred \in TensorsOf(s, PredValues)
    /\ NoCall

\* The 4 x 4 mask of one sample whose foreground is the 2 x 2 square with its
\* upper left corner at row r, column c.
SquareMask(r, c) ==
    [shape |-> <<1, 4, 4, NumChannels>>,
     val |-> [k \in 1..16 |->
                 IF /\ ((k - 1) \div 4) + 1 \in {r, r + 1}
                    /\ ((k - 1) % 4) + 1 \in {c, c + 1}
                 THEN One ELSE Zero]]

\* x with every element set to 0.
ZerosLike(x) == [shape |-> x.shape, val |-> [k \in 1..NumElems(x.shape) |-> Zero]]

\* A ground truth with a 2 x 2 foreground square, scored against an identical
\* prediction or an all-zero one.
InitSquareMask ==
    /\ \E r \in 1..3, c \in 1..3 : y_true = SquareMask(r, c)
    /\ y_pred \in {y_true, ZerosLike(y_true)}
    /\ NoCall

\* Two batches of one, one after the other, as one batch of two.
Stack(a, b) ==
    [shape |-> <<2, a.shape[2], a.shape[3], a.shape[4]>>, val |-> a.val \o b.val]

\* One sample has intersection sum(t * p) = i and union_sum sum(t + p) = u.
HasOverlap(t, p, i, u) ==
    /\ np_sum(TMul(t, p)) = <<i, 1>>
    /\ np_sum(TAdd(t, p)) = <<u, 1>>

\* The samples of 2 x 2 locations, a ground truth and a prediction, with
\* intersection i and union_sum u.
SmallSamples(i, u) ==
    LET s == <<1, 2, 2, NumChannels>>
    IN {m \in TensorsOf(s, TruthValues) \X TensorsOf(s, PredValues) :
           HasOverlap(m[1], m[2], i, u)}

\* A batch of two samples of 2 x 2 locations, the first with intersection 2
\* and union_sum 4, the second with intersection 0 and union_sum 0.
InitTwoSamples ==
    /\ \E m1 \in SmallSamples(2, 4), m2 \in SmallSamples(0, 0) :
          /\ y_true = Stack(m1[1], m2[1])
          /\ y_pred = Stack(m1[2], m2[2])
    /\ NoCall

\* The concrete inputs of the two scenarios.
InitScenario == InitSquareMask \/ InitTwoSamples

\* Masks of any two shapes.
InitAnyShape ==
    /\ \E s1 \in Shapes, s2 \in Shapes :
        /\ y_true \in TensorsOf(s1, TruthValues)
        /\ y_pred \in TensorsOf(s2, PredValues)
    /\ NoCall

(* ------------------------------- calls -------------------------------- *)

\* A behaviour is one call of one of the functions on the masks drawn by Init:
\* the functions keep nothing between calls, so a call is enabled only while no
\* result has been recorded.

\* numpy and TensorFlow raise ValueError when two operand shapes cannot be
\* broadcast together; the outcome is recorded as "ShapeMismatch".
Raise(f, sm, w, e) ==
    /\ fn' = f
    /\ smooth' = sm
    /\ weight' = w
    /\ err' = e
    /\ out' = <<>>
    /\ UNCHANGED <<threads, inference, training>>

Return(f, sm, w, v) ==
    /\ fn' = f
    /\ smooth' = sm
    /\ weight' = w
    /\ err' = "none"
    /\ out' = v
    /\ UNCHANGED <<threads, inference, training>>

Call_calc_dice(smooths) ==
    /\ fn = "none"
    /\ \E sm \in smooths :
        IF BroadcastOK(y_true.shape, y_pred.shape)
        THEN Return("calc_dice", sm, DefaultWeight, calc_dice(y_true, y_pred, sm))
        ELSE Raise("calc_dice", sm, DefaultWeight, "ShapeMismatch")
    /\ UNCHANGED <<y_true, y_pred>>

Call_dice_coef(smooths) ==
    /\ fn = "none"
    /\ \E sm \in smooths :
        IF BroadcastOK(y_true.shape, y_pred.shape)
        THEN Return("dice_coef", sm, DefaultWeight,
                    dice_coef(y_true, y_pred, DefaultAxis, sm))
        ELSE Raise("dice_coef", sm, DefaultWeight, "ShapeMismatch")
    /\ UNCHANGED <<y_true, y_pred>>

Call_dice_coef_loss(smooths) ==
    /\ fn = "none"
    /\ \E sm \in smooths :
        IF BroadcastOK(y_true.shape, y_pred.shape)
        THEN Return("dice_coef_loss", sm, DefaultWeight,
                    dice_coef_loss(y_true, y_pred, DefaultAxis, sm))
        ELSE Raise("dice_coef_loss", sm, DefaultWeight, "ShapeMismatch")
    /\ UNCHANGED <<y_true, y_pred>>

\* K.losses.binary_crossentropy ends in sigmoid_cross_entropy_with_logits,
\* which raises ValueError unless labels and logits have the same shape.
Call_combined_dice_ce_loss(smooths, weights) ==
    /\ fn = "none"
    /\ \E sm \in smooths, w \in weights :
        IF y_true.shape = y_pred.shape
        THEN Return("combined_dice_ce_loss", sm, w,
                    combined_dice_ce_loss(y_true, y_pred, DefaultAxis, sm, w))
        ELSE Raise("combined_dice_ce_loss", sm, w, "ShapeMismatch")
    /\ UNCHANGED <<y_true, y_pred>>

\* Calls with arguments inside the contract: smooth > 0, weight in [0, 1].
Next ==
    \/ Call_calc_dice(PositiveSmooth)
    \/ Call_dice_coef(PositiveSmooth)
    \/ Call_dice_coef_loss(PositiveSmooth)
    \/ Call_combined_dice_ce_loss(PositiveSmooth, UnitWeights)

\* Calls with any of the arguments tried.
NextAnyArgs ==
    \/ Call_calc_dice(SmoothValues)
    \/ Call_dice_coef(SmoothValues)
    \/ Call_dice_coef_loss(SmoothValues)
    \/ Call_combined_dice_ce_loss(SmoothValues, WeightValues)

\* Equal-shape masks, arguments inside the contract.
Spec == Init /\ [][Next]_vars

\* Masks of any two shapes, arguments inside the contract.
SpecShapes == InitAnyShape /\ [][Next]_vars

\* Equal-shape masks, any arguments.
SpecArgs == Init /\ [][NextAnyArgs]_vars

\* Equal-shape masks, calc_dice alone with any smooth.
SpecHardScore == Init /\ [][Call_calc_dice(SmoothValues)]_vars

\* The two scores on the inputs of the scenarios.
NextScores ==
    \/ Call_calc_dice(PositiveSmooth)
    \/ Call_dice_coef(PositiveSmooth)

SpecScenario == InitScenario /\ [][NextScores]_vars

\* Equal-shape masks, dice_coef alone with smooth > 0.
SpecSoftScore == Init /\ [][Call_dice_coef(PositiveSmooth)]_vars

\* Equal-shape masks, dice_coef_loss alone with smooth > 0.
SpecLoss == InitLoss /\ [][Call_dice_coef_loss(PositiveSmooth)]_vars

(* --------------------------- concurrent calls ------------------------- *)

\* Two threads, each making one call of one of the functions on masks of its
\* own.  A call runs the statements of its function one at a time, and the
\* threads interleave between statements.  Every name a function assigns is a
\* local variable: it lives in the frame of the call that assigns it.
Threads == {1, 2}

\* The frame that holds the local variables of the call made by thread t.
FrameOf_shared(t) == 1

FrameOf(t) == t

\* The local variables of each function in the order of their assignment;
\* combined_dice_ce_loss has none of its own and runs dice_coef_loss, whose
\* locals it reaches through the value that call returns.
LocalNames(f) ==
    CASE f = "calc_dice" -> <<"numerator", "denominator", "coef">>
      [] f = "dice_coef" ->
             <<"intersection", "union", "numerator", "denominator", "coef">>
      [] f \in {"dice_coef_loss", "combined_dice_ce_loss"} ->
             <<"intersection", "p", "t", "numerator", "denominator", "dice_loss">>

\* The value of the local variable named n in the frame m.
Local(m, n) == m[n].val

\* The value of statement k of function f, given the arguments a of the call
\* and the frame m it reads its local variables from.  The statement after
\* the last assignment is the return.
Statement_calc_dice(k, a, m) ==
    CASE k = 1 -> RAdd(RMul(Two, np_sum(TMul(a.y_true, a.y_pred))), a.smooth)
      [] k = 2 -> RAdd(RAdd(np_sum(a.y_true), np_sum(a.y_pred)), a.smooth)
      [] k = 3 -> RDiv(Local(m, "numerator"), Local(m, "denominator"))
      [] k = 4 -> Local(m, "coef")

Statement_dice_coef(k, a, m) ==
    CASE k = 1 -> reduce_sum(TMul(a.y_true, a.y_pred), a.axis)
      [] k = 2 -> reduce_sum(TAdd(a.y_true, a.y_pred), a.axis)
      [] k = 3 -> TAdd(TMul(Scalar(Two), Local(m, "intersection")), Scalar(a.smooth))
      [] k = 4 -> TAdd(Local(m, "union"), Scalar(a.smooth))
      [] k = 5 -> TDiv(Local(m, "numerator"), Local(m, "denominator"))
      [] k = 6 -> reduce_mean(Local(m, "coef"))

\* target is a.y_true and prediction a.y_pred.
Statement_dice_coef_loss(k, a, m) ==
    CASE k = 1 -> reduce_sum(TMul(a.y_pred, a.y_true), a.axis)
      [] k = 2 -> reduce_sum(a.y_pred, a.axis)
      [] k = 3 -> reduce_sum(a.y_true, a.axis)
      [] k = 4 -> reduce_mean(TAdd(Local(m, "intersection"), Scalar(a.smooth)))
      [] k = 5 -> reduce_mean(TAdd(TAdd(Local(m, "t"), Local(m, "p")),
                                   Scalar(a.smooth)))
      [] k = 6 -> << <<RNeg(One), RMul(Two, Local(m, "numerator"))>>,
                     <<One, Local(m, "denominator")>> >>
      [] k = 7 -> Local(m, "dice_loss")

\* The one statement of combined_dice_ce_loss, evaluated once the call of
\* dice_coef_loss inside it has run its statements.
Statement_combined_dice_ce_loss(k, a, m) ==
    IF k <= 6 THEN Statement_dice_coef_loss(k, a, m)
    ELSE LET dice == ScaleTerms(a.weight, Local(m, "dice_loss"))
             ce == binary_crossentropy(a.y_true, a.y_pred)
         IN [shape |-> ce.shape,
             val |-> BlendFirst(dice, RSub(One, a.weight), ce, NumElems(ce.shape))]

Statement(f, k, a, m) ==
    CASE f = "calc_dice" -> Statement_calc_dice(k, a, m)
      [] f = "dice_coef" -> Statement_dice_coef(k, a, m)
      [] f = "dice_coef_loss" -> Statement_dice_coef_loss(k, a, m)
      [] f = "combined_dice_ce_loss" -> Statement_combined_dice_ce_loss(k, a, m)

\* The value the call returns when nothing else runs.
RunAlone(f, a) ==
    CASE f = "calc_dice" -> calc_dice(a.y_true, a.y_pred, a.smooth)
      [] f = "dice_coef" -> dice_coef(a.y_true, a.y_pred, a.axis, a.smooth)
      [] f = "dice_coef_loss" -> dice_coef_loss(a.y_true, a.y_pred, a.axis, a.smooth)
      [] f = "combined_dice_ce_loss" ->
             combined_dice_ce_loss(a.y_true, a.y_pred, a.axis, a.smooth, a.weight)

Functions == {"calc_dice", "dice_coef", "dice_coef_loss", "combined_dice_ce_loss"}

\* The masks of a concurrent call: one sample of one location.
ThreadShape == <<1, 1, 1, NumChannels>>

\* The arguments of a call with axis, smooth and weight at their defaults.
CallsOf(f) ==
    {[fn |-> f, y_true |-> yt, y_pred |-> yp, axis |-> DefaultAxis,
      smooth |-> One, weight |-> DefaultWeight] :
        yt \in TensorsOf(ThreadShape, TruthValues),
        yp \in TensorsOf(ThreadShape, PredValues)}

Calls == UNION {CallsOf(f) : f \in Functions}

\* Each thread is about to run the first statement of its call; no frame
\* holds a local variable yet.
InitThreads ==
    /\ y_true = Scalar(Zero)
    /\ y_pred = Scalar(Zero)
    /\ fn = "none" /\ smooth = One /\ weight = DefaultWeight
    /\ err = "none" /\ out = <<>>
    /\ NoNotebook
    /\ \E c \in [Threads -> Calls] :
          threads = [call |-> c,
                     pc |-> [t \in Threads |-> 1],
                     frame |-> [t \in Threads |-> <<>>],
                     ret |-> [t \in Threads |-> <<>>]]

\* Thread t runs the next statement of its call: an assignment binds the
\* value in the frame of the call, the return hands the value to the caller.
RunStatement(t) ==
    LET c == threads.call[t]
        k == threads.pc[t]
        names == LocalNames(c.fn)
        f == FrameOf(t)
        v == Statement(c.fn, k, c, threads.frame[f])
    IN /\ k <= Len(names) + 1
       /\ threads' =
            IF k <= Len(names)
            THEN [threads EXCEPT
                    !.pc[t] = k + 1,
                    !.frame[f] = (names[k] :> [val |-> v, by |-> t]) @@ @]
            ELSE [threads EXCEPT !.pc[t] = k + 1, !.ret[t] = v]
       /\ UNCHANGED <<y_true, y_pred, fn, smooth, weight, err, out,
                      inference, training>>

NextThreads == \E t \in Threads : RunStatement(t)

\* Concurrent calls under every interleaving of their statements.
SpecThreads == InitThreads /\ [][NextThreads]_vars

(* ------------------------ the inference notebook ---------------------- *)

\* The notebook runs its cells from top to bottom.  inference.cell is the
\* cell the kernel stands at, inference.at the position inside predict.

\* onnx=False: the flag as the notebook sets it.
onnx_inference == FALSE

png_directory == "inference_examples"

indicies_validation == <<40, 63, 43, 55, 99, 101, 19, 46>>

\* The shape of one example taken with [[img_no], ]: a batch of one.
ExampleShape == <<1, 1, 2, NumChannels>>

\* "{}".format(n) for n >= 0: the decimal digits of n.
RECURSIVE Digits(_)
Digits(n) == IF n < 10 THEN <<n>> ELSE Append(Digits(n \div 10), n % 10)

\* Every example saved under one name.
png_name_fixed(img_no) == <<png_directory, "pred", ".png">>

\* os.path.join(png_directory, "pred{}.png".format(img_no)).
png_name(img_no) == <<png_directory, "pred", Digits(img_no), ".png">>

\* "{:.4f}".format(x) for a finite x >= 0: x rounded to four decimals, half to
\* even, as the number of ten-thousandths.
Format4f(x) ==
    LET q == (x[1] * 10000) \div x[2]
        r == (x[1] * 10000) % x[2]
    IN IF 2 * r > x[2] \/ (2 * r = x[2] /\ q % 2 = 1) THEN q + 1 ELSE q

\* No name of predict is bound.
Unbound == <<>>

InitInference ==
    /\ y_true = Scalar(Zero)
    /\ y_pred = Scalar(Zero)
    /\ fn = "none" /\ smooth = One /\ weight = DefaultWeight
    /\ err = "none" /\ out = <<>>
    /\ NoThreads
    /\ training = <<>>
    /\ \E exists \in BOOLEAN, flag \in BOOLEAN :
          inference = [cell |-> "setup", dir |-> exists, error |-> "none",
                       plot_result |-> flag, next |-> 1, at |-> "none",
                       img_no |-> Unbound, msk |-> Unbound,
                       pred_mask |-> Unbound, dice_score |-> Unbound,
                       printed |-> <<>>, shown |-> Unbound, title |-> Unbound,
                       saved |-> <<>>]

ScoringUnchanged == UNCHANGED <<y_true, y_pred, fn, smooth, weight, err, out>>

\* os.makedirs(png_directory): raises FileExistsError if the directory exists.
makedirs(nb) ==
    IF nb.dir THEN [nb EXCEPT !.error = "FileExistsError"]
    ELSE [nb EXCEPT !.dir = TRUE]

\* The cell has run to its end: the kernel moves on from the first run.
SetupDone(nb) ==
    IF nb.error = "none"
    THEN [nb EXCEPT !.cell = IF @ = "setup" THEN "driver" ELSE @]
    ELSE nb

\* The cell can be run while no other cell is running: in its turn, again
\* before the driver loop starts, and after the loop has ended.
SetupEnabled ==
    /\ inference.error = "none"
    /\ \/ inference.cell = "setup"
       \/ inference.cell = "driver" /\ inference.next = 1 /\ inference.at = "none"
       \/ inference.cell = "end"

\* The setup cell calling os.makedirs without looking.
SetupCell_always_makedirs ==
    /\ SetupEnabled
    /\ inference' = SetupDone(makedirs(inference))
    /\ ScoringUnchanged
    /\ UNCHANGED <<threads, training>>

\* The cell that creates the output directory:
\* if not os.path.exists(png_directory): os.makedirs(png_directory).
SetupCell ==
    /\ SetupEnabled
    /\ inference' = SetupDone(IF ~inference.dir THEN makedirs(inference)
                              ELSE inference)
    /\ ScoringUnchanged
    /\ UNCHANGED <<threads, training>>

\* for idx in indicies_validation: predict(idx, plot_result): the call takes
\* the example's mask msk = msks_validation[[img_no], ] from the data file,
\* whose contents are not known.
Predict_call ==
    /\ inference.error = "none"
    /\ inference.cell = "driver" /\ inference.at = "none"
    /\ inference.next <= Len(indicies_validation)
    /\ \E m \in TensorsOf(ExampleShape, TruthValues) :
          inference' = [inference EXCEPT
                          !.next = @ + 1, !.at = "start",
                          !.img_no = indicies_validation[inference.next],
                          !.msk = m, !.pred_mask = Unbound,
                          !.dice_score = Unbound]
    /\ ScoringUnchanged
    /\ UNCHANGED <<threads, training>>

\* pred_mask = model.predict(img, ...): whatever the trained model answers.
\* Under onnx the branch indexes the placeholder ... and raises TypeError.
Predict_model ==
    /\ inference.at = "start"
    /\ IF onnx_inference
       THEN inference' = [inference EXCEPT !.error = "TypeError", !.at = "none"]
       ELSE \E m \in TensorsOf(ExampleShape, PredValues) :
               inference' = [inference EXCEPT !.pred_mask = m, !.at = "predicted"]
    /\ ScoringUnchanged
    /\ UNCHANGED <<threads, training>>

\* dice_score = calc_dice(pred_mask, msk).
Predict_calc_dice ==
    /\ inference.at = "predicted"
    /\ y_true' = inference.pred_mask
    /\ y_pred' = inference.msk
    /\ fn' = "calc_dice"
    /\ smooth' = One
    /\ err' = "none"
    /\ out' = dice_score(inference.msk, inference.pred_mask)
    /\ inference' = [inference EXCEPT !.dice_score = out', !.at = "scored"]
    /\ UNCHANGED <<weight, threads, training>>

\* print("Dice score for Image #{} = {:.4f}".format(img_no, dice_score)).
Predict_print ==
    /\ inference.at = "scored"
    /\ inference' = [inference EXCEPT
                       !.printed = Append(@, inference.img_no),
                       !.shown = [img_no |-> inference.img_no,
                                  dice |-> Format4f(inference.dice_score)],
                       !.at = "printed"]
    /\ ScoringUnchanged
    /\ UNCHANGED <<threads, training>>

\* if plot_result: the figure with its title, then plt.savefig(png_name).
Predict_plot ==
    /\ inference.at = "printed"
    /\ inference.plot_result
    /\ inference' = [inference EXCEPT
                       !.title = [img_no |-> inference.img_no,
                                  dice |-> Format4f(inference.dice_score)],
                       !.saved = IF inference.dir
                                 THEN Append(@, png_name(inference.img_no))
                                 ELSE @,
                       !.error = IF inference.dir THEN @ ELSE "FileNotFoundError",
                       !.at = "none"]
    /\ ScoringUnchanged
    /\ UNCHANGED <<threads, training>>

\* predict returns without plotting.
Predict_return ==
    /\ inference.at = "printed"
    /\ ~inference.plot_result
    /\ inference' = [inference EXCEPT !.at = "none"]
    /\ ScoringUnchanged
    /\ UNCHANGED <<threads, training>>

\* The loop has gone through the list.
DriverEnd ==
    /\ inference.error = "none"
    /\ inference.cell = "driver" /\ inference.at = "none"
    /\ inference.next > Len(indicies_validation)
    /\ inference' = [inference EXCEPT !.cell = "end"]
    /\ ScoringUnchanged
    /\ UNCHANGED <<threads, training>>

NextInference ==
    \/ SetupCell
    \/ Predict_call
    \/ Predict_model
    \/ Predict_calc_dice
    \/ Predict_print
    \/ Predict_plot
    \/ Predict_return
    \/ DriverEnd

SpecInference == InitInference /\ [][NextInference]_vars

(* ------------------------- the training notebook ---------------------- *)

\* The cells of Train-Solution.ipynb that bind or use the names of the four
\* steps, in the order of the file; the kernel runs them from top to bottom
\* and stops at the first cell that raises.  training.cell is the position of
\* the cell the kernel stands at.
Cells_evaluate_before_train ==
    <<"imports", "load_data", "define_model", "plot_model", "evaluate", "train">>

Cells == <<"imports", "load_data", "define_model", "plot_model", "train", "evaluate">>

\* The cell the kernel stands at; "end" after the last one.
CellAt(nb) == IF nb.cell <= Len(Cells) THEN Cells[nb.cell] ELSE "end"

\* "# import onnxmltools": the import is commented out, the name is not bound.
onnxmltools_imported == FALSE

\* for i in range(0,30).
NumBatches == 30

\* args.batch_size; the two outcomes of load_data as the shapes of
\* imgs_train and msks_train; the file name get_callbacks may return.
BatchSizes == 1..MaxBatch
DataShapes == {<<<<8, 2, 2, 4>>, <<8, 2, 2, 1>>>>, <<<<9, 1, 1, 4>>, <<9, 1, 1, 1>>>>}
ModelFilenames == {"unet_model_for_decathlon.hdf5", "unet_model.hdf5"}

\* The seconds a timed call may take.
Durations == {1, 2}

\* A name bound to a number is held as <<number>>, an unbound one as <<>>.

InitTraining ==
    /\ y_true = Scalar(Zero)
    /\ y_pred = Scalar(Zero)
    /\ fn = "none" /\ smooth = One /\ weight = DefaultWeight
    /\ err = "none" /\ out = <<>>
    /\ NoThreads
    /\ inference = <<>>
    /\ \E flag \in BOOLEAN, B \in BatchSizes, d \in DataShapes,
          f \in ModelFilenames, pydot \in BOOLEAN :
          training = [cell |-> 1, error |-> "none", bound |-> {},
                      onnx |-> flag, batch_size |-> B, data |-> d,
                      callbacks_file |-> f, pydot |-> pydot,
                      model |-> Unbound, model_filename |-> Unbound,
                      clock |-> 0, start_time |-> Unbound, at |-> "none",
                      step_started |-> Unbound, batch_started |-> <<>>,
                      i |-> 0, train_on_batch |-> <<>>, fit |-> 0,
                      convert_keras |-> 0, save_model |-> <<>>,
                      total |-> Unbound, evaluated |-> <<>>]

TrainingOnly == UNCHANGED <<y_true, y_pred, fn, smooth, weight, err, out,
                            threads, inference>>

\* The cell raises: the kernel stops running cells.
RaiseIn(nb, e) == [nb EXCEPT !.error = e, !.at = "none"]

\* The cell has run to its end; the kernel goes on to the next one.
NextCell(nb) == [nb EXCEPT !.cell = @ + 1, !.at = "none"]

\* A cell that uses a name no cell has bound raises NameError.
Needs(nb, names) == names \subseteq nb.bound

Running(c) ==
    /\ training.error = "none"
    /\ CellAt(training) = c

\* The first code cell: the imports and onnx = False (or True when the user
\* sets it).
ImportsCell ==
    /\ Running("imports")
    /\ training' = NextCell([training EXCEPT
           !.bound = @ \cup {"onnx", "args", "load_data", "load_model",
                            "get_callbacks", "evaluate_model", "time"}
                     \cup (IF onnxmltools_imported THEN {"onnxmltools"} ELSE {})])
    /\ TrainingOnly

\* imgs_train, msks_train, imgs_validation, msks_validation = load_data(...).
LoadDataCell ==
    /\ Running("load_data")
    /\ training' =
         IF Needs(training, {"load_data", "args"})
         THEN NextCell([training EXCEPT
                  !.bound = @ \cup {"imgs_train", "msks_train",
                                    "imgs_validation", "msks_validation"}])
         ELSE RaiseIn(training, "NameError")
    /\ TrainingOnly

\* model = load_model(imgs_train.shape, msks_train.shape);
\* model_filename, model_callbacks = get_callbacks().
DefineModelCell ==
    /\ Running("define_model")
    /\ training' =
         IF Needs(training, {"load_model", "get_callbacks", "imgs_train", "msks_train"})
         THEN NextCell([training EXCEPT
                  !.model = [input_shape |-> training.data[1],
                             output_shape |-> training.data[2], trained |-> 0],
                  !.model_filename = training.callbacks_file,
                  !.bound = @ \cup {"model", "model_filename", "model_callbacks"}])
         ELSE RaiseIn(training, "NameError")
    /\ TrainingOnly

\* tf.keras.utils.plot_model(model, ...): raises ImportError without pydot.
PlotModelCell ==
    /\ Running("plot_model")
    /\ training' =
         IF ~Needs(training, {"model"}) THEN RaiseIn(training, "NameError")
         ELSE IF ~training.pydot THEN RaiseIn(training, "ImportError")
         ELSE NextCell(training)
    /\ TrainingOnly

\* The head of the training cell: start_time = time.time().
Train_start ==
    /\ Running("train")
    /\ training.at = "none"
    /\ training' =
         IF Needs(training, {"time", "onnx"})
         THEN [training EXCEPT !.start_time = <<training.clock>>,
                               !.step_started = <<training.clock>>,
                               !.at = "branch"]
         ELSE RaiseIn(training, "NameError")
    /\ TrainingOnly

\* The slices of train_on_batch with the -1 left out of the stop.
train_on_batch_args_whole_batch(i, B) ==
    [imgs |-> <<i * B, B * (i + 1)>>, msks |-> <<i * B, B * (i + 1)>>]

\* The arguments of model.train_on_batch in pass i of the loop, each slice
\* [start:stop] as <<start, stop>>:
\* imgs_train[i*args.batch_size:args.batch_size*(i+1)-1] and
\* msks_train[i*args.batch_size:args.batch_size*(i+1)-1].
train_on_batch_args(i, B) ==
    [imgs |-> <<i * B, B * (i + 1) - 1>>, msks |-> <<i * B, B * (i + 1) - 1>>]

\* 'output/unet_model_for_decathlon.onnx'.
onnx_file == "output/unet_model_for_decathlon.onnx"

\* One pass of "for i in range(0,30)" under "if onnx:": start_time is set
\* anew, the model is trained on the two slices, then converted by
\* onnxmltools.convert_keras and saved by onnxmltools.utils.save_model; the
\* name onnxmltools must be bound for that, or the pass raises NameError
\* after train_on_batch has returned.
Train_on_batch ==
    /\ Running("train")
    /\ training.at = "branch"
    /\ training.onnx
    /\ training.i < NumBatches
    /\ \E d \in Durations :
         LET i == training.i
             trained ==
                 [training EXCEPT
                    !.start_time = <<training.clock>>,
                    !.batch_started = Append(@, training.clock),
                    !.train_on_batch =
                        Append(@, train_on_batch_args(i, training.batch_size)),
                    !.model.trained = @ + 1,
                    !.clock = @ + d]
         IN training' =
              IF ~Needs(training, {"model", "imgs_train", "msks_train", "args"})
              THEN RaiseIn(training, "NameError")
              ELSE IF ~Needs(training, {"onnxmltools"})
              THEN RaiseIn(trained, "NameError")
              ELSE [trained EXCEPT
                      !.convert_keras = @ + 1,
                      !.save_model = Append(@, [file |-> onnx_file, batch |-> i]),
                      !.i = i + 1]
    /\ TrainingOnly

\* history = model.fit(imgs_train, msks_train, ...) under "else:".
Train_fit ==
    /\ Running("train")
    /\ training.at = "branch"
    /\ ~training.onnx
    /\ \E d \in Durations :
         training' =
           IF Needs(training, {"model", "imgs_train", "msks_train", "args",
                               "imgs_validation", "msks_validation",
                               "model_callbacks"})
           THEN [training EXCEPT !.fit = @ + 1, !.model.trained = @ + 1,
                                 !.clock = @ + d, !.at = "trained"]
           ELSE RaiseIn(training, "NameError")
    /\ TrainingOnly

\* print("Total time elapsed for training = {} seconds".format(
\* time.time() - start_time)), after the loop or after model.fit.
Train_end ==
    /\ Running("train")
    /\ \/ training.at = "trained"
       \/ training.at = "branch" /\ training.onnx /\ training.i = NumBatches
    /\ training' = NextCell([training EXCEPT
                               !.total = <<training.clock - training.start_time[1]>>])
    /\ TrainingOnly

\* model = evaluate_model(model_filename, imgs_validation, msks_validation).
EvaluateCell ==
    /\ Running("evaluate")
    /\ training' =
         IF Needs(training, {"evaluate_model", "model_filename",
                             "imgs_validation", "msks_validation"})
         THEN NextCell([training EXCEPT
                          !.evaluated = Append(@, training.model_filename),
                          !.bound = @ \cup {"model"}])
         ELSE RaiseIn(training, "NameError")
    /\ TrainingOnly

NextTraining ==
    \/ ImportsCell
    \/ LoadDataCell
    \/ DefineModelCell
    \/ PlotModelCell
    \/ Train_start
    \/ Train_on_batch
    \/ Train_fit
    \/ Train_end
    \/ EvaluateCell

SpecTraining == InitTraining /\ [][NextTraining]_vars

(* ------------------------------ properties ---------------------------- *)

\* The properties restate each formula in integer arithmetic over index sets,
\* without the tensor operators above.  Mask values lie on the grid of halves,
\* so twice a value is an integer.
Twice(x) == (2 * x[1]) \div x[2]

\* x is the finite value n/d (d > 0).
RatEq(x, n, d) == x[2] > 0 /\ x[1] * d = x[2] * n

RECURSIVE FnSum(_)
FnSum(f) ==
    IF DOMAIN f = {} THEN 0
    ELSE LET k == CHOOSE j \in DOMAIN f : TRUE
         IN f[k] + FnSum([j \in DOMAIN f \ {k} |-> f[j]])

RECURSIVE FnProd(_)
FnProd(f) ==
    IF DOMAIN f = {} THEN 1
    ELSE LET k == CHOOSE j \in DOMAIN f : TRUE
         IN f[k] * FnProd([j \in DOMAIN f \ {k} |-> f[j]])

Indices(shape) == (1..shape[1]) \X (1..shape[2]) \X (1..shape[3]) \X (1..shape[4])

\* The locations <<h, w>> of one sample and the entries <<b, c>> left by a
\* reduction over height and width.
Locations(shape) == (1..shape[2]) \X (1..shape[3])
Entries(shape) == (1..shape[1]) \X (1..shape[4])

El(x, b, h, w, c) == x.val[Ravel(<<b, h, w, c>>, x.shape)]

\* 4 * sum(y_true * y_pred), 2 * sum(y_true) and 2 * sum(y_pred) over all axes.
I4All == FnSum([i \in Indices(y_true.shape) |->
                  Twice(El(y_true, i[1], i[2], i[3], i[4]))
                    * Twice(El(y_pred, i[1], i[2], i[3], i[4]))])
T2All == FnSum([i \in Indices(y_true.shape) |-> Twice(El(y_true, i[1], i[2], i[3], i[4]))])
P2All == FnSum([i \in Indices(y_pred.shape) |-> Twice(El(y_pred, i[1], i[2], i[3], i[4]))])

\* The same three sums of entry e = <<b, c>>, over height and width only.
I4(e) == FnSum([l \in Locations(y_true.shape) |->
                  Twice(El(y_true, e[1], l[1], l[2], e[2]))
                    * Twice(El(y_pred, e[1], l[1], l[2], e[2]))])
T2(e) == FnSum([l \in Locations(y_true.shape) |-> Twice(El(y_true, e[1], l[1], l[2], e[2]))])
P2(e) == FnSum([l \in Locations(y_pred.shape) |-> Twice(El(y_pred, e[1], l[1], l[2], e[2]))])

Returned(f) == fn = f /\ err = "none"

IsNumber(x) == DOMAIN x = 1..2 /\ x[1] \in Int /\ x[2] \in Nat

\* C1: for equal-shape masks and smoothing > 0, calc_dice returns exactly
\* (2 * sum(y_true * y_pred) + smooth) / (sum(y_true) + sum(y_pred) + smooth),
\* every sum running over all axes, the batch axis included, so that the
\* result is one number whatever the batch size.  (Both sides times 4 * the
\* denominator of smooth.)
C1_HardScoreFormula ==
    Returned("calc_dice") =>
        /\ IsNumber(out)
        /\ RatEq(out,
                 2 * I4All * smooth[2] + 4 * smooth[1],
                 2 * T2All * smooth[2] + 2 * P2All * smooth[2] + 4 * smooth[1])

\* A batch of more than one sample with a partial overlap has been scored.
C1_Witness ==
    /\ Returned("calc_dice")
    /\ y_true.shape[1] > 1
    /\ I4All > 0
    /\ out # One

\* Numerator and denominator of the score of entry e, times 4 * the denominator
\* of smooth: 2 * intersection + smooth and union_sum + smooth.
ScoreNum(e) == 2 * I4(e) * smooth[2] + 4 * smooth[1]
ScoreDen(e) == 2 * (T2(e) + P2(e)) * smooth[2] + 4 * smooth[1]

\* C2: dice_coef forms, for each sample, intersection and union_sum over
\* height and width only (never the batch axis), the per-sample score
\* (2 * intersection + smooth) / (union_sum + smooth), and returns the
\* arithmetic mean of the per-sample scores.  (The sum of the fractions is
\* taken over their common denominator, the product of the denominators.)
C2_SoftScoreFormula ==
    Returned("dice_coef") =>
        LET E == Entries(y_true.shape)
            D == FnProd([e \in E |-> ScoreDen(e)])
            N == FnSum([e \in E |-> ScoreNum(e) * (D \div ScoreDen(e))])
        IN /\ IsNumber(out)
           /\ RatEq(out, N, Cardinality(E) * D)

\* A batch of two or more samples whose per-sample scores differ was scored.
C2_Witness ==
    /\ Returned("dice_coef")
    /\ y_true.shape[1] > 1
    /\ \E e1, e2 \in Entries(y_true.shape) :
          ScoreNum(e1) * ScoreDen(e2) # ScoreNum(e2) * ScoreDen(e1)

\* C3: dice_coef_loss is -log(N) + log(D) with
\* N = 2 * (mean over the batch of per-sample intersection + smooth) and
\* D = (mean of per-sample sum(target)) + (mean of per-sample sum(prediction))
\* + smooth: the batch is averaged before the ratio is formed.
C3_LossFormula ==
    Returned("dice_coef_loss") =>
        LET E == Entries(y_true.shape)
            B == Cardinality(E)
            SI == FnSum([e \in E |-> I4(e)])
            ST == FnSum([e \in E |-> T2(e)])
            SP == FnSum([e \in E |-> P2(e)])
        IN /\ Len(out) = 2
           /\ out[1][1] = <<-1, 1>>
           /\ RatEq(out[1][2], 2 * (SI * smooth[2] + 4 * B * smooth[1]),
                               4 * B * smooth[2])
           /\ out[2][1] = <<1, 1>>
           /\ RatEq(out[2][2], (ST + SP) * smooth[2] + 2 * B * smooth[1],
                               2 * B * smooth[2])

\* A loss of a batch of two or more samples with different intersections.
C3_Witness ==
    /\ Returned("dice_coef_loss")
    /\ y_true.shape[1] > 1
    /\ \E e1, e2 \in Entries(y_true.shape) : I4(e1) # I4(e2)

\* The prediction p as the cross-entropy reads it: clipped to [1e-7, 1 - 1e-7].
Clipped(p) ==
    IF 10000000 * p[1] < p[2] THEN <<1, 10000000>>
    ELSE IF 10000000 * p[1] > 9999999 * p[2] THEN <<9999999, 10000000>>
    ELSE p

\* terms[1..2] are weight * (-log(N) + log(D)), N and D as in C3.
IsWeightedDiceLoss(terms) ==
    LET E == Entries(y_true.shape)
        B == Cardinality(E)
        SI == FnSum([e \in E |-> I4(e)])
        ST == FnSum([e \in E |-> T2(e)])
        SP == FnSum([e \in E |-> P2(e)])
    IN /\ RatEq(terms[1][1], -weight[1], weight[2])
       /\ RatEq(terms[1][2], 2 * (SI * smooth[2] + 4 * B * smooth[1]), 4 * B * smooth[2])
       /\ RatEq(terms[2][1], weight[1], weight[2])
       /\ RatEq(terms[2][2], (ST + SP) * smooth[2] + 2 * B * smooth[1], 2 * B * smooth[2])

\* t1, t2 are (1 - weight) / n * (-t * log(q) - (1 - t) * log(1 - q)) for the
\* label t and the clipped prediction q of one element, n the number of
\* elements averaged over.
IsWeightedCrossEntropy(t1, t2, t, p, n) ==
    LET q == Clipped(p)
    IN /\ RatEq(t1[1], -(weight[2] - weight[1]) * t[1], weight[2] * t[2] * n)
       /\ t1[2] = q
       /\ RatEq(t2[1], -(weight[2] - weight[1]) * (t[2] - t[1]), weight[2] * t[2] * n)
       /\ t2[2] = <<q[2] - q[1], q[2]>>

C5_MismatchRejected ==
    (fn # "none" /\ y_true.shape # y_pred.shape) => (err = "ShapeMismatch" /\ out = <<>>)

\* C6 as stated: a call of any of the functions with smooth <= 0 is rejected
\* with an InvalidSmoothing error and produces no value.
C6_NonPositiveSmoothRejected ==
    (fn # "none" /\ smooth[1] <= 0) => (err = "InvalidSmoothing" /\ out = <<>>)

\* C7 as stated: combined_dice_ce_loss with a weight outside [0, 1] fails with
\* a ValueOutOfRange error and produces no loss.
C7_WeightOutOfRangeRejected ==
    (fn = "combined_dice_ce_loss" /\ (weight[1] < 0 \/ weight[1] > weight[2]))
        => (err = "ValueOutOfRange" /\ out = <<>>)

C9_HardScoreRange ==
    Returned("calc_dice") =>
        /\ out[2] > 0
        /\ 0 < out[1]
        /\ out[1] <= out[2]
        /\ out = One =>
              \/ T2All = 0 /\ P2All = 0
              \/ T2All > 0 /\ y_pred.val = y_true.val

\* A score of exactly 1 on a non-empty ground truth.
C9_Witness ==
    /\ Returned("calc_dice")
    /\ out = One
    /\ T2All > 0

\* C10: for a non-empty binary mask A and smooth > 0, calc_dice(A, A) is
\* exactly 1.
C10_SelfOverlapPerfect ==
    (Returned("calc_dice") /\ y_pred = y_true /\ T2All > 0) => out = One

\* A non-empty mask of several elements, not all set, scored against itself
\* with a smooth other than the default.
C10_Witness ==
    /\ Returned("calc_dice")
    /\ y_pred = y_true
    /\ T2All > 0
    /\ T2All < 2 * NumElems(y_true.shape)
    /\ smooth = Half

\* 2 * (the sum of every element of mask x).
Sum2(x) == FnSum([k \in 1..NumElems(x.shape) |-> Twice(x.val[k])])

Binary(x) == \A k \in 1..NumElems(x.shape) : x.val[k] \in {Zero, One}

\* a and b are non-empty binary masks of one shape with no location where
\* both are 1.
Disjoint(a, b) ==
    /\ a.shape = b.shape
    /\ Binary(a) /\ Binary(b)
    /\ Sum2(a) > 0 /\ Sum2(b) > 0
    /\ \A k \in 1..NumElems(a.shape) : a.val[k] = Zero \/ b.val[k] = Zero

\* Every pair of disjoint non-empty binary masks within the bound.
DisjointPairs ==
    {m \in UNION {TensorsOf(s, TruthValues) \X TensorsOf(s, TruthValues) : s \in Shapes} :
        Disjoint(m[1], m[2])}

\* C11: for disjoint non-empty binary masks A, B of equal shape, calc_dice is
\* smooth / (sum(A) + sum(B) + smooth), and with smooth fixed every disjoint
\* pair with a larger sum(A) + sum(B) has a strictly smaller score.
C11_DisjointScore ==
    (Returned("calc_dice") /\ Disjoint(y_true, y_pred)) =>
        /\ RatEq(out, 2 * smooth[1],
                 (Sum2(y_true) + Sum2(y_pred)) * smooth[2] + 2 * smooth[1])
        /\ \A m \in DisjointPairs :
              Sum2(m[1]) + Sum2(m[2]) > Sum2(y_true) + Sum2(y_pred)
                  => RLess(calc_dice(m[1], m[2], smooth), out)

\* A disjoint pair has been scored and a disjoint pair with a larger sum exists.
C11_Witness ==
    /\ Returned("calc_dice")
    /\ Disjoint(y_true, y_pred)
    /\ smooth = Half
    /\ \E m \in DisjointPairs : Sum2(m[1]) + Sum2(m[2]) > Sum2(y_true) + Sum2(y_pred)

\* Every batch dice_coef_loss is given: a ground truth and a prediction of
\* one shape.
Batches ==
    UNION {TensorsOf(s, TruthValues) \X TensorsOf(s, PredValues) : s \in LossShapes}

\* exp(loss) of a loss of two log terms with coefficients 1 or -1, and
\* exp(-loss): for -log(N) + log(D) they are D / N and N / D.  log is strictly
\* increasing, so two losses compare as their exponentials do.
ExpTerm(term) == IF term[1] = One THEN term[2] ELSE RInv(term[2])
ExpLoss(terms) == RMul(ExpTerm(terms[1]), ExpTerm(terms[2]))
ExpNegLoss(terms) == RInv(ExpLoss(terms))

\* C12 as stated: with smooth and axis fixed, for any two batches x and y,
\* dice_coef(x) < dice_coef(y) implies dice_coef_loss(x) > dice_coef_loss(y),
\* and equal scores imply equal losses.
C12_LossDecreasingInScore ==
    Returned("dice_coef_loss") =>
        \A x \in Batches :
            LET score_x == dice_coef(x[1], x[2], DefaultAxis, smooth)
                score_y == dice_coef(y_true, y_pred, DefaultAxis, smooth)
                loss_x == ExpLoss(dice_coef_loss(x[1], x[2], DefaultAxis, smooth))
                loss_y == ExpLoss(out)
            IN /\ RLess(score_x, score_y) => RLess(loss_y, loss_x)
               /\ RLess(score_y, score_x) => RLess(loss_x, loss_y)
               /\ score_x = score_y => loss_x = loss_y

\* C13 as stated: with smooth and axis fixed, exp(-dice_coef_loss(x)) /
\* dice_coef(x) has the same value for every batch x.
C13_LossIsNegLogScore ==
    Returned("dice_coef_loss") =>
        \A x \in Batches :
            RDiv(ExpNegLoss(dice_coef_loss(x[1], x[2], DefaultAxis, smooth)),
                 dice_coef(x[1], x[2], DefaultAxis, smooth))
              = RDiv(ExpNegLoss(out), dice_coef(y_true, y_pred, DefaultAxis, smooth))

\* C14: in dice_coef_loss, with smooth > 0 and no negative mask element,
\* the arguments of both logarithms, 2 * mean(intersection + smooth) and
\* mean(t + p + smooth), are finite and strictly positive for every batch, the
\* all-zero batch included.
C14_LogArgumentsPositive ==
    Returned("dice_coef_loss") =>
        /\ Len(out) = 2
        /\ \A k \in 1..2 :
              /\ out[k][1] \in {RNeg(One), One}
              /\ out[k][2][2] > 0
              /\ out[k][2][1] > 0

\* The loss of a batch of several samples whose masks are all zero.
C14_Witness ==
    /\ Returned("dice_coef_loss")
    /\ y_true.shape[1] > 1
    /\ T2All = 0
    /\ P2All = 0

\* The terms of a sum of log terms that count: a term with coefficient 0 is
\* 0 whenever its logarithm is finite, that is, its argument finite and > 0.
NonZeroTerms(terms) == SelectSeq(terms, LAMBDA t : t[1] # Zero)
FiniteLogs(terms) == \A j \in 1..Len(terms) : terms[j][2][1] > 0 /\ terms[j][2][2] > 0

C16_SoftScoreRange ==
    Returned("dice_coef") =>
        /\ out[2] > 0
        /\ 0 < out[1]
        /\ out[1] <= out[2]

\* A mean below 1 over several samples, one prediction strictly between 0
\* and 1.
C16_Witness ==
    /\ Returned("dice_coef")
    /\ y_true.shape[1] > 1
    /\ out[1] < out[2]
    /\ \E k \in 1..NumElems(y_pred.shape) : y_pred.val[k] = Half

\* Sample b of batch x as a batch of one, and batch x with sample j replaced
\* by the batch of one m.  A sample is a run of H * W * C elements of the
\* row-major layout.
SampleSize(x) == x.shape[2] * x.shape[3] * x.shape[4]
Sample(x, b) ==
    [shape |-> <<1, x.shape[2], x.shape[3], x.shape[4]>>,
     val |-> SubSeq(x.val, (b - 1) * SampleSize(x) + 1, b * SampleSize(x))]
ReplaceSample(x, j, m) ==
    [shape |-> x.shape,
     val |-> SubSeq(x.val, 1, (j - 1) * SampleSize(x)) \o m.val
               \o SubSeq(x.val, j * SampleSize(x) + 1, NumElems(x.shape))]

\* dice_coef of sample b scored as a batch of one, and the sum of these
\* scores over the first b samples.
SampleScore(b) == dice_coef(Sample(y_true, b), Sample(y_pred, b), DefaultAxis, smooth)

RECURSIVE SampleScoreSum(_)
SampleScoreSum(b) ==
    IF b = 0 THEN Zero ELSE RAdd(SampleScoreSum(b - 1), SampleScore(b))

\* The batch of one with the height, width and channels of y_true whose
\* elements are all 0.
EmptySample ==
    LET s == <<1, y_true.shape[2], y_true.shape[3], y_true.shape[4]>>
    IN [shape |-> s, val |-> [k \in 1..NumElems(s) |-> Zero]]

\* C17: dice_coef scores each sample on its own: the score of a batch is the
\* mean of the scores of its samples, each scored as a batch of one; and in
\* a batch of several samples, replacing the masks of one sample j changes
\* batch-size * score by exactly the change of sample j's own score, every
\* other sample's score staying as it was.  (The replacement checked in each
\* state is by the empty sample; every batch within the bound is a state, so
\* any replacement of sample j is two of these, one of them backwards.)
C17_SamplesIndependent ==
    Returned("dice_coef") =>
        LET B == y_true.shape[1]
            total == RMul(<<B, 1>>, out)
            score_m == dice_coef(EmptySample, EmptySample, DefaultAxis, smooth)
        IN /\ out = RDiv(SampleScoreSum(B), <<B, 1>>)
           /\ B > 1 => \A j \in 1..B :
                 LET replaced == dice_coef(ReplaceSample(y_true, j, EmptySample),
                                           ReplaceSample(y_pred, j, EmptySample),
                                           DefaultAxis, smooth)
                 IN RSub(RMul(<<B, 1>>, replaced), total)
                      = RSub(score_m, SampleScore(j))

\* A batch of several samples, two of them with different scores.
C17_Witness ==
    /\ Returned("dice_coef")
    /\ y_true.shape[1] > 1
    /\ SampleScore(1) # SampleScore(2)
    /\ smooth = Half

\* 2 * (the sum of each sample of x), and 4 * sum(a * b) over all axes.
SampleSums2(x) == [b \in 1..x.shape[1] |-> Sum2(Sample(x, b))]
Intersection4(a, b) ==
    FnSum([k \in 1..NumElems(a.shape) |-> Twice(a.val[k]) * Twice(b.val[k])])

\* For every batch within the bound and every smooth > 0: the per-sample sums
\* of its ground truth and of its prediction, its summed intersection, smooth,
\* and exp of its dice_coef_loss.
LossTable ==
    {[t |-> SampleSums2(x[1]), p |-> SampleSums2(x[2]),
      i |-> Intersection4(x[1], x[2]), sm |-> sm,
      loss |-> ExpLoss(dice_coef_loss(x[1], x[2], DefaultAxis, sm))] :
        x \in Batches, sm \in PositiveSmooth}

\* The batches that y_true, y_pred compare with in C18: the same per-sample
\* sums and smooth, a strictly larger mean intersection.
MoreOverlap ==
    LET t == SampleSums2(y_true)
        p == SampleSums2(y_pred)
        i == I4All
    IN {r \in LossTable : r.i > i /\ r.sm = smooth /\ r.t = t /\ r.p = p}

\* C18: of two batches with the same per-sample sums of ground truth and of
\* prediction and the same smooth, the one with the strictly larger mean
\* intersection has the strictly smaller dice_coef_loss.
C18_LossDecreasingInOverlap ==
    Returned("dice_coef_loss") =>
        \A r \in MoreOverlap : RLess(r.loss, ExpLoss(out))

\* The loss of a batch of several samples for which a batch with the same
\* sums and more overlap exists.
C18_Witness ==
    /\ Returned("dice_coef_loss")
    /\ y_true.shape[1] > 1
    /\ I4All > 0
    /\ MoreOverlap # {}

\* y_true is a 4 x 4 binary mask of one sample whose foreground is a 2 x 2
\* square.
IsSquareMask ==
    /\ y_true.shape = <<1, 4, 4, 1>>
    /\ T2All = 8
    /\ \E r \in 1..3, c \in 1..3 :
          \A h \in {r, r + 1}, w \in {c, c + 1} : El(y_true, 1, h, w, 1) = One

\* C19: with smooth 1 and a 4 x 4 ground truth whose foreground is a 2 x 2
\* square, calc_dice is exactly 1 against an identical prediction and exactly
\* 1/(4+0+1) = 1/5 against an all-zero prediction.
C19_SquareScenario ==
    (Returned("calc_dice") /\ smooth = One /\ IsSquareMask) =>
        /\ y_pred = y_true => out = One
        /\ y_pred.shape = y_true.shape /\ P2All = 0 => out = <<1, 5>>

\* The square not in a corner has been scored against the all-zero prediction.
C19_Witness ==
    /\ Returned("calc_dice")
    /\ smooth = One
    /\ IsSquareMask
    /\ El(y_true, 1, 2, 2, 1) = One /\ El(y_true, 1, 3, 3, 1) = One
    /\ P2All = 0
    /\ out = <<1, 5>>

\* y_true, y_pred is a batch of two 2 x 2 samples, sample 1 with intersection
\* 2 and union_sum 4, sample 2 with intersection 0 and union_sum 0.
IsTwoSampleScenario ==
    /\ y_true.shape = <<2, 2, 2, 1>>
    /\ y_pred.shape = y_true.shape
    /\ I4(<<1, 1>>) = 4 * 2 /\ T2(<<1, 1>>) + P2(<<1, 1>>) = 2 * 4
    /\ I4(<<2, 1>>) = 0 /\ T2(<<2, 1>>) + P2(<<2, 1>>) = 0

\* C20: with smooth 1 and reduction over height and width, on that batch the
\* per-sample scores are 1 and 1 and dice_coef returns their mean, 1.
C20_TwoSampleScenario ==
    (Returned("dice_coef") /\ smooth = One /\ IsTwoSampleScenario) =>
        /\ SampleScore(1) = One
        /\ SampleScore(2) = One
        /\ out = One

\* The batch of the scenario has been scored with smooth 1.
C20_Witness ==
    /\ Returned("dice_coef")
    /\ smooth = One
    /\ IsTwoSampleScenario
    /\ out = One

(* ------------------- C28: one sample, one channel --------------------- *)

\* A batch of at least two samples on which dice_coef (a mean of per-sample
\* ratios) and calc_dice (one ratio of sums over the whole batch) differ.
C28_CanDiffer ==
    \E x \in Batches, sm \in PositiveSmooth :
        /\ x[1].shape[1] >= 2
        /\ dice_coef(x[1], x[2], DefaultAxis, sm) # calc_dice(x[1], x[2], sm)

\* C28: for a batch of exactly one sample with one channel, dice_coef with
\* axis (1, 2) returns the value calc_dice returns on the same two masks with
\* the same smooth; for batches of two or more samples the two can differ.
C28_OneSampleSameScore ==
    /\ (Returned("dice_coef") /\ y_true.shape[1] = 1 /\ y_true.shape[4] = 1) =>
           out = calc_dice(y_true, y_pred, smooth)
    /\ C28_CanDiffer

\* dice_coef returned on one sample of several locations that overlap in part.
C28_Witness ==
    /\ Returned("dice_coef")
    /\ y_true.shape[1] = 1 /\ y_true.shape[4] = 1
    /\ NumElems(y_true.shape) >= 2
    /\ I4All > 0
    /\ out # One

(* ------------------- C29: the loss goes below zero -------------------- *)

\* The batches in perfect agreement: the prediction is the binary ground truth.
PerfectBatches == {x \in Batches : x[1] = x[2]}

\* Two batches in perfect agreement, scored with the same smooth, whose
\* losses differ.
C29_NoFixedMinimum ==
    \E x \in PerfectBatches, y \in PerfectBatches, sm \in PositiveSmooth :
        ExpLoss(dice_coef_loss(x[1], x[2], DefaultAxis, sm))
            # ExpLoss(dice_coef_loss(y[1], y[2], DefaultAxis, sm))

\* C29: dice_coef_loss is below zero (its exponential below 1) exactly when
\* 2 * mean intersection + smooth > mean(t + p), the means taken over the
\* samples; so it is strictly negative for identical binary masks, two empty
\* masks included, and its value at perfect agreement is not one fixed number.
C29_LossNegative ==
    /\ Returned("dice_coef_loss") =>
         LET B == y_true.shape[1]
             negative == RLess(ExpLoss(out), One)
         IN /\ negative <=>
                   I4All * smooth[2] + 2 * B * smooth[1]
                       > (T2All + P2All) * smooth[2]
            /\ y_true = y_pred => negative
    /\ C29_NoFixedMinimum

\* The loss of a ground truth with foreground scored against itself.
C29_Witness ==
    /\ Returned("dice_coef_loss")
    /\ y_true = y_pred
    /\ T2All > 0
    /\ RLess(ExpLoss(out), One)

(* ------------------------ C21: concurrent calls ----------------------- *)

\* Thread t has returned from its call.
Done(t) == threads.pc[t] = Len(LocalNames(threads.call[t].fn)) + 2

Scored == inference # <<>> /\ inference.at \in {"scored", "printed"}

\* C22 as stated: the score of an example is computed only once the
\* example's prediction exists, by a call of calc_dice that receives the
\* example's ground-truth mask as y_true and the predicted mask as y_pred, and
\* the printed value and the value in the plot title are both that score.
C22_ScoreOfExample ==
    inference # <<>> =>
        /\ Scored =>
             /\ inference.pred_mask # Unbound
             /\ fn = "calc_dice"
             /\ y_true = inference.msk /\ y_pred = inference.pred_mask
             /\ out = inference.dice_score
        /\ inference.at = "printed" =>
               inference.shown = [img_no |-> inference.img_no,
                                  dice |-> Format4f(inference.dice_score)]
        /\ (inference.at = "none" /\ inference.title # Unbound) =>
               inference.title = inference.shown

\* What the code does: the same, with the prediction as y_true and the
\* ground truth as y_pred.
C22_ScoreWithSwappedRoles ==
    inference # <<>> =>
        /\ Scored =>
             /\ inference.pred_mask # Unbound
             /\ fn = "calc_dice"
             /\ y_true = inference.pred_mask /\ y_pred = inference.msk
             /\ out = inference.dice_score
             /\ out = calc_dice(inference.msk, inference.pred_mask, One)
        /\ inference.at = "printed" =>
               inference.shown = [img_no |-> inference.img_no,
                                  dice |-> Format4f(inference.dice_score)]
        /\ (inference.at = "none" /\ inference.title # Unbound) =>
               inference.title = inference.shown

(* ------------------------ C23: the saved figures ---------------------- *)

\* The number written with the decimal digits ds.
RECURSIVE Decimal(_)
Decimal(ds) ==
    IF Len(ds) = 0 THEN 0
    ELSE 10 * Decimal(SubSeq(ds, 1, Len(ds) - 1)) + ds[Len(ds)]

\* The calls of predict that have returned, and the first k listed indices.
Returns == IF inference.at = "none" THEN inference.next - 1 ELSE inference.next - 2
Listed(k) == SubSeq(indicies_validation, 1, k)

\* name is pred{img_no}.png in png_directory.
IsPngOf(name, img_no) ==
    /\ Len(name) = 4
    /\ name[1] = png_directory /\ name[2] = "pred" /\ name[4] = ".png"
    /\ \A j \in 1..Len(name[3]) : name[3][j] \in 0..9
    /\ Decimal(name[3]) = img_no

\* The outputs of the driver so far: the Dice line of every call that got to
\* it, in list order; one PNG per returned call if plot_result and none
\* otherwise, each named after its index, no two alike, written into a
\* directory that exists; no error.
DriverOutputs ==
    /\ inference.error = "none"
    /\ inference.printed =
           Listed(IF inference.at = "printed" THEN Returns + 1 ELSE Returns)
    /\ Len(inference.saved) = IF inference.plot_result THEN Returns ELSE 0
    /\ \A j \in 1..Len(inference.saved) :
           IsPngOf(inference.saved[j], indicies_validation[j])
    /\ \A i, j \in 1..Len(inference.saved) :
           i # j => inference.saved[i] # inference.saved[j]
    /\ Len(inference.saved) > 0 => inference.dir
    /\ inference.cell # "setup" => inference.dir
    /\ inference.cell = "end" => inference.printed = indicies_validation

\* C23: predict(img_no, plot_result) writes pred{img_no}.png into
\* png_directory exactly if plot_result is true and prints the Dice score
\* either way; the directory exists before the first write, being created
\* only when absent, so that running the setup cell again changes nothing;
\* the loop predicts each listed index once, in list order, and distinct
\* indices write distinct files.
C23_DriverOutputs ==
    [][/\ inference # <<>> => DriverOutputs'
       /\ (inference # <<>> /\ inference.cell = "end") => inference' = inference]_vars

\* The loop has ended with plotting on: eight Dice lines and eight files.
C23_Witness ==
    /\ inference # <<>>
    /\ inference.cell = "end"
    /\ inference.plot_result
    /\ Len(inference.saved) = Len(indicies_validation)
    /\ Len(inference.printed) = Len(indicies_validation)

(* -------------------- C24: the order of the four steps ---------------- *)

\* The training cell has returned: it printed the total time.
TrainingReturned == training.total # Unbound

Range(slice) == slice[1]..(slice[2] - 1)

BatchIndices == 0..(NumBatches - 1)

TrainCellOver ==
    /\ training # <<>>
    /\ training.step_started # Unbound
    /\ training.total # Unbound \/ training.error # "none"

\* C26 as stated: an execution of the training cell runs exactly one path.
\* With onnx false it calls model.fit once and converts and saves nothing.
\* With onnx true it never calls model.fit, calls train_on_batch 30 times,
\* converts and saves the model to the one ONNX file after every batch, and
\* the file left is the one written after the 30th batch.
C26_OneTrainingPath ==
    /\ training # <<>> => (training.fit = 0 \/ training.train_on_batch = <<>>)
    /\ TrainCellOver =>
         IF ~training.onnx
         THEN /\ training.fit = 1
              /\ training.train_on_batch = <<>>
              /\ training.convert_keras = 0
              /\ training.save_model = <<>>
         ELSE /\ training.fit = 0
              /\ Len(training.train_on_batch) = NumBatches
              /\ training.convert_keras = NumBatches
              /\ Len(training.save_model) = NumBatches
              /\ \A k \in 1..Len(training.save_model) :
                     training.save_model[k] = [file |-> onnx_file, batch |-> k - 1]

(* ---------------------- C27: the printed total ------------------------ *)

\* C27 as stated: when the training cell is over, the total it printed is,
\* with onnx false, the time since the training step started, and with onnx
\* true the time since the 30th batch started, start_time having been set
\* anew at the start of every batch.
C27_PrintedTotal ==
    /\ (training # <<>> /\ training.batch_started # <<>>) =>
           training.start_time = <<training.batch_started[Len(training.batch_started)]>>
    /\ TrainCellOver =>
         /\ training.total # Unbound
         /\ ~training.onnx =>
                training.total = <<training.clock - training.step_started[1]>>
         /\ training.onnx =>
                /\ Len(training.batch_started) = NumBatches
                /\ training.total = <<training.clock - training.batch_started[NumBatches]>>

====
